---- MODULE Spec2Model ----
(***************************************************************************)
(* GraphQLer: the dependency-aware query synthesis engine.                 *)
(*                                                                         *)
(*   - RegularMaterializer      (fuzzer/fengine/materializers)             *)
(*   - Retrier                  (fuzzer/fengine/retrier)                   *)
(*   - FEngine                  (fuzzer/fengine/fengine.py)                *)
(*                                                                         *)
(* Python strings built by the materializer are sequences of tokens        *)
(* <<kind, text>>; Python dicts are functions whose DOMAIN is the key set; *)
(* Python lists are sequences.  A call that can raise returns an outcome   *)
(* record whose field exc names the exception ("" when it returns).        *)
(* random.choice is a nondeterministic choice: an operator that draws      *)
(* returns the SET of its possible outcomes.                               *)
(***************************************************************************)
EXTENDS Integers, Sequences, FiniteSets, TLC

VARIABLES
    \* --- materialize_inputs, called on one operation and one bucket
    in_op,          \* name of the operation being materialized
    in_bucket,      \* objects_bucket handed to the materializer
    in_result,      \* outcome of materialize_inputs, NotRun before the call
    in_bucket_after, \* the bucket object after the call
    \* --- materialize_output, called on one schema and one output descriptor
    out_objects,    \* self.objects: the object types of the schema
    out_output,     \* the output TypeDescriptor
    out_result,     \* outcome of materialize_output, NotRun before the call
    \* --- Retrier.retry, called on one rejected payload
    rt_payload,     \* the payload the server rejected (a list of lines)
    rt_response,    \* the response carrying the error
    rt_count,       \* retry_count of the call
    rt_server,      \* the server: its answer to the 1st, 2nd, ... request
    rt_result,      \* outcome of retry(url, payload, response, retry_count)
    \* --- FEngine, running operations one after the other
    eng_bucket,     \* the objects bucket the caller holds
    eng_last,       \* the last call: operation, bucket given, server, outcome
    \* --- ObjectDepdenencyResolver, run on the parsed objects
    res_objects,    \* self.objects: name -> object
    res_done,       \* resolve() has returned
    \* --- steps 2 and 3 of FEngine.run_regular_*, entered with a payload
    int_bucket,     \* the objects bucket the caller holds
    int_last,       \* the call: operation, bucket given, used_objects, server, outcome
    \* --- Orchestrator
    orch_graph,     \* self.graph: its nodes and edges
    orch_maxLen,    \* self.maxLen
    orch_result,    \* outcome of orchestrate()
    \* --- a sequence of run_regular_* calls that starts with an empty bucket
    seq_bucket,     \* the objects bucket the caller holds
    seq_last,       \* the last call: made as a whole or from step 2 on, and its success
    seq_returned,   \* the <<type, id>> a successful CREATE or query has returned so far
    \* --- the entry point the caller uses
    entry

in_vars == <<in_op, in_bucket, in_result, in_bucket_after>>

out_vars == <<out_objects, out_output, out_result>>

rt_vars == <<rt_payload, rt_response, rt_count, rt_server, rt_result>>

eng_vars == <<eng_bucket, eng_last>>

res_vars == <<res_objects, res_done>>

int_vars == <<int_bucket, int_last>>

orch_vars == <<orch_graph, orch_maxLen, orch_result>>

seq_vars == <<seq_bucket, seq_last, seq_returned>>

vars == <<entry, in_vars, out_vars, rt_vars, eng_vars, res_vars, int_vars, orch_vars, seq_vars>>

----------------------------------------------------------------------------
(* Bounds of the model *)

\* number of distinct identifiers the server can hand out
MaxId == 2
\* longest identifier list kept under one bucket key
MaxLen == 2
\* the interpreter's recursion limit (sys.getrecursionlimit(), 1000 by
\* default), scaled to the model: a call nested deeper raises RecursionError
RecursionLimit == 30
\* number of requests for which the server's answers are chosen freely; a
\* later request gets the last answer again
MaxAnswers == 3

----------------------------------------------------------------------------
(* Generic helpers for dicts and lists *)

EmptyDict == [k \in {} |-> 0]

Range(s) == {s[i] : i \in DOMAIN s}

Min(a, b) == IF a <= b THEN a ELSE b

\* list[a:b] for 0 <= a, b: the 0-based items a .. b-1, cut to the list
Slice(list, a, b) == SubSeq(list, Min(a, Len(list)) + 1, Min(b, Len(list)))

\* d[k] = v on a dict
DictPut(d, k, v) == [x \in (DOMAIN d) \cup {k} |-> IF x = k THEN v ELSE d[x]]

IdName == <<"i1", "i2", "i3", "i4">>

Ids == {IdName[i] : i \in 1..MaxId}

\* duplicate-free lists of identifiers, at most MaxLen long
IdLists == UNION {{s \in [1..n -> Ids] : \A i, j \in 1..n : i # j => s[i] # s[j]} : n \in 0..MaxLen}

----------------------------------------------------------------------------
(* The schema the model runs on: TypeDescriptors, input objects, operations *)

NoType == [kind |-> "NONE"]

\* a TypeDescriptor {kind, name, type, ofType}
Fld(kind, name, type, ofType) == [kind |-> kind, name |-> name, type |-> type, ofType |-> ofType]

Scalar(name, type) == Fld("SCALAR", name, type, NoType)

NonNull(name, inner) == Fld("NON_NULL", name, "", inner)

ListOf(name, inner) == Fld("LIST", name, "", inner)

\* object type names that can be bucket keys
TypeNames == {"User", "Post"}

\* an ordered dict of inputs: a sequence of <<input_name, input_field>>
InputObjects ==
    [ UserRef |-> [inputFields |-> << <<"userId", NonNull("userId", Scalar("ID", "ID"))>>,
                                      <<"note", Scalar("note", "String")>> >>],
      \* input UserFilter { name: String, and: UserFilter }
      UserFilter |-> [inputFields |-> << <<"name", Scalar("name", "String")>>,
                                         <<"and", Fld("INPUT_OBJECT", "and", "UserFilter", NoType)>> >>],
      \* input PostFilter { title: String, any: [PostFilter!] }
      PostFilter |-> [inputFields |-> << <<"title", Scalar("title", "String")>>,
                                         <<"any", ListOf("any", NonNull("PostFilter",
                                                    Fld("INPUT_OBJECT", "PostFilter", "PostFilter", NoType)))>> >>] ]

Operations ==
    [ createUser |->
        [kind |-> "mutation", mutationType |-> "CREATE", output |-> Fld("OBJECT", "User", "User", NoType),
         inputs |-> << <<"name", NonNull("name", Scalar("String", "String"))>> >>,
         hardDependsOn |-> EmptyDict, softDependsOn |-> EmptyDict],
      updateUser |->
        [kind |-> "mutation", mutationType |-> "UPDATE", output |-> Fld("OBJECT", "User", "User", NoType),
         inputs |-> << <<"id", NonNull("id", Scalar("ID", "ID"))>>,
                       <<"name", Scalar("name", "String")>> >>,
         hardDependsOn |-> [id |-> "User"], softDependsOn |-> EmptyDict],
      deleteUser |->
        [kind |-> "mutation", mutationType |-> "DELETE", output |-> Fld("OBJECT", "User", "User", NoType),
         inputs |-> << <<"id", NonNull("id", Scalar("ID", "ID"))>> >>,
         hardDependsOn |-> [id |-> "User"], softDependsOn |-> EmptyDict],
      createPost |->
        [kind |-> "mutation", mutationType |-> "CREATE", output |-> Fld("OBJECT", "Post", "Post", NoType),
         inputs |-> << <<"title", NonNull("title", Scalar("String", "String"))>>,
                       <<"author", Scalar("author", "ID")>> >>,
         hardDependsOn |-> EmptyDict, softDependsOn |-> [author |-> "User"]],
      removeAuthor |->
        [kind |-> "mutation", mutationType |-> "DELETE", output |-> Fld("OBJECT", "Post", "Post", NoType),
         inputs |-> << <<"postId", NonNull("postId", Scalar("ID", "ID"))>>,
                       <<"ref", NonNull("ref", Fld("INPUT_OBJECT", "UserRef", "UserRef", NoType))>>,
                       <<"tags", ListOf("tags", Scalar("String", "String"))>> >>,
         hardDependsOn |-> [postId |-> "Post", userId |-> "User"], softDependsOn |-> EmptyDict],
      ping |->
        [kind |-> "mutation", mutationType |-> "UNKNOWN", output |-> Fld("OBJECT", "User", "User", NoType),
         inputs |-> << <<"token", NonNull("token", Scalar("ID", "ID"))>>,
                       <<"labels", ListOf("labels", Scalar("String", "String"))>>,
                       <<"ref", Fld("INPUT_OBJECT", "ref", "UserRef", NoType)>> >>,
         hardDependsOn |-> [token |-> "UNKNOWN", labels |-> "UNKNOWN", ref |-> "UNKNOWN"],
         softDependsOn |-> EmptyDict],
      getUser |->
        [kind |-> "query", mutationType |-> "", output |-> Fld("OBJECT", "User", "User", NoType),
         inputs |-> << <<"id", NonNull("id", Scalar("ID", "ID"))>> >>,
         hardDependsOn |-> [id |-> "User"], softDependsOn |-> EmptyDict],
      getPost |->
        [kind |-> "query", mutationType |-> "", output |-> Fld("OBJECT", "Post", "Post", NoType),
         inputs |-> << <<"id", Scalar("id", "ID")>> >>,
         hardDependsOn |-> EmptyDict, softDependsOn |-> [id |-> "Post"]],
      searchUsers |->
        [kind |-> "query", mutationType |-> "", output |-> Fld("OBJECT", "User", "User", NoType),
         inputs |-> << <<"filter", Fld("INPUT_OBJECT", "filter", "UserFilter", NoType)>> >>,
         hardDependsOn |-> EmptyDict, softDependsOn |-> EmptyDict],
      searchPosts |->
        [kind |-> "query", mutationType |-> "", output |-> Fld("OBJECT", "Post", "Post", NoType),
         inputs |-> << <<"where", NonNull("where", Fld("INPUT_OBJECT", "PostFilter", "PostFilter", NoType))>> >>,
         hardDependsOn |-> EmptyDict, softDependsOn |-> EmptyDict] ]

OpNames == DOMAIN Operations

\* every objects_bucket: a dict from some object type names to identifier lists
Buckets == UNION {[S -> IdLists] : S \in SUBSET TypeNames}

----------------------------------------------------------------------------
(* RegularMaterializer: the input side *)

\* an outcome of a materializer call: the string built, self.used_objects
\* after it, and the exception it ended with ("" when it returned)
Returned(str, used) == [exc |-> "", str |-> str, used |-> used]

Raised(exc, used) == [exc |-> exc, str |-> <<>>, used |-> used]

\* get_random_scalar(name, type): a literal synthesized for the scalar type
get_random_scalar(name, type) == << <<"literal", type>> >>

\* f'"{randomly_chosen_dependency_val}"'
Quoted(val) == << <<"quoted", val>> >>

Punct(s) == << <<"punct", s>> >>

\* no dependency name counts as unresolved
is_unknown_dependency_never(hard_dependency_name) == FALSE

\* elif hard_dependency_name == "UNKNOWN"
is_unknown_dependency(hard_dependency_name) == hard_dependency_name = "UNKNOWN"

RECURSIVE materialize_input_field(_, _, _, _, _, _)
RECURSIVE materialize_inputs_from(_, _, _, _, _, _, _)

\* the loop of materialize_inputs from its i-th item on, built_str and
\* self.used_objects being what the earlier items left
materialize_inputs_from(operator_info, inputs, objects_bucket, i, built_str, used, depth) ==
    IF i > Len(inputs) THEN {Returned(built_str, used)}
    ELSE UNION {
        IF r.exc # "" THEN {r}
        ELSE materialize_inputs_from(operator_info, inputs, objects_bucket, i + 1,
                built_str \o << <<"name", inputs[i][1]>> >> \o Punct(":") \o r.str \o Punct(","),
                r.used, depth)
        : r \in materialize_input_field(operator_info, inputs[i][2], objects_bucket, TRUE, used, depth + 1) }

\* materialize_inputs, called at recursion depth `depth`
materialize_inputs(operator_info, inputs, objects_bucket, used, depth) ==
    IF depth > RecursionLimit THEN {Raised("RecursionError", used)}
    ELSE materialize_inputs_from(operator_info, inputs, objects_bucket, 1, <<>>, used, depth)

materialize_input_field(operator_info, input_field, objects_bucket, check_deps, used, depth) ==
    LET hard_dependencies == operator_info.hardDependsOn
        soft_dependencies == operator_info.softDependsOn
    IN
    IF depth > RecursionLimit THEN {Raised("RecursionError", used)}
    ELSE IF check_deps /\ input_field.name \in DOMAIN hard_dependencies THEN
        LET hard_dependency_name == hard_dependencies[input_field.name] IN
        IF hard_dependency_name \in DOMAIN objects_bucket THEN
            \* random.choice of an empty list raises IndexError
            IF objects_bucket[hard_dependency_name] = <<>> THEN {Raised("IndexError", used)}
            ELSE { Returned(Quoted(v), DictPut(used, hard_dependency_name, v))
                   : v \in Range(objects_bucket[hard_dependency_name]) }
        ELSE IF is_unknown_dependency(hard_dependency_name) THEN
            materialize_input_field(operator_info, input_field, objects_bucket, FALSE, used, depth + 1)
        ELSE {Raised("HardDependencyNotMetException", used)}
    ELSE IF check_deps /\ input_field.name \in DOMAIN soft_dependencies THEN
        LET soft_depedency_name == soft_dependencies[input_field.name] IN
        IF soft_depedency_name \in DOMAIN objects_bucket THEN
            \* this branch reads the local hard_dependency_name, which is
            \* bound only in the branch above
            {Raised("UnboundLocalError", used)}
        ELSE materialize_input_field(operator_info, input_field, objects_bucket, FALSE, used, depth + 1)
    ELSE IF input_field.kind = "NON_NULL" THEN
        materialize_input_field(operator_info, input_field.ofType, objects_bucket, TRUE, used, depth + 1)
    ELSE IF input_field.kind = "LIST" THEN
        { IF r.exc # "" THEN r ELSE Returned(Punct("[") \o r.str \o Punct("]"), r.used)
          : r \in materialize_input_field(operator_info, input_field.ofType, objects_bucket, TRUE, used, depth + 1) }
    ELSE IF input_field.kind = "INPUT_OBJECT" THEN
        IF input_field.type \notin DOMAIN InputObjects THEN {Raised("KeyError", used)}
        ELSE
        { IF r.exc # "" THEN r ELSE Returned(Punct("{") \o r.str \o Punct("}"), r.used)
          : r \in materialize_inputs(operator_info, InputObjects[input_field.type].inputFields,
                                     objects_bucket, used, depth + 1) }
    ELSE IF input_field.kind = "SCALAR" THEN
        {Returned(get_random_scalar(input_field.name, input_field.type), used)}
    ELSE {Returned(<<>>, used)}

\* a materializer that takes the identifiers it uses out of the bucket
objects_bucket_after_taking(objects_bucket, outcome) ==
    [T \in DOMAIN objects_bucket |->
        IF T \in DOMAIN outcome.used
        THEN SelectSeq(objects_bucket[T], LAMBDA v : v # outcome.used[T])
        ELSE objects_bucket[T]]

\* the caller's objects_bucket after materialize_inputs ended with `outcome`:
\* the bucket is read (`in`, random.choice) and assigned nowhere; the
\* identifiers used go to self.used_objects
objects_bucket_after(objects_bucket, outcome) == objects_bucket

----------------------------------------------------------------------------
(* RegularMaterializer: the output side *)

MAX_OBJECT_CYCLES == 2

MAX_OUTPUT_SELECTOR_DEPTH == 2

MAX_INPUT_DEPTH == 10

\* list.count(x)
Count(list, x) == Cardinality({i \in DOMAIN list : list[i] = x})

RECURSIVE get_base_oftype(_)

\* utils.parser_utils.get_base_oftype: unwrap NON_NULL / LIST to the base type
get_base_oftype(oftype) ==
    IF oftype.kind \in {"NON_NULL", "LIST"} THEN get_base_oftype(oftype.ofType) ELSE oftype

Name(n) == << <<"name", n>> >>

RECURSIVE materialize_output(_, _, _, _, _)
RECURSIVE materialize_output_object_fields(_, _, _, _)
RECURSIVE materialize_fields_from(_, _, _, _, _, _)

\* materialize_output without the tests for an empty selection: an object
\* is written with its braces whatever its fields gave
materialize_output_keeps_empty(objects, output, used_objects, include_name, depth) ==
    IF depth > RecursionLimit THEN Raised("RecursionError", used_objects)
    ELSE IF output.kind = "OBJECT" THEN
        LET r == materialize_output_object_fields(objects, output.type, used_objects, depth + 1) IN
        IF r.exc # "" THEN r
        ELSE Returned((IF include_name THEN Name(output.name) ELSE <<>>)
                      \o Punct("{") \o r.str \o Punct("}") \o Punct(","), r.used)
    ELSE IF output.kind = "NON_NULL" \/ output.kind = "LIST" THEN
        LET base_oftype == get_base_oftype(output.ofType) IN
        IF base_oftype.kind = "SCALAR" THEN
            Returned(Name(output.name) \o Punct(","), used_objects)
        ELSE
            LET r == materialize_output(objects, base_oftype, used_objects, FALSE, depth + 1) IN
            IF r.exc # "" THEN r
            ELSE IF include_name THEN Returned(Name(output.name) \o r.str \o Punct(","), r.used)
            ELSE Returned(r.str, r.used)
    ELSE IF include_name THEN Returned(Name(output.name) \o Punct(","), used_objects)
    ELSE Returned(<<>>, used_objects)

\* materialize_output(output, used_objects, include_name); used_objects is
\* one list object shared by the whole recursion, so every call returns it
materialize_output(objects, output, used_objects, include_name, depth) ==
    IF depth > RecursionLimit THEN Raised("RecursionError", used_objects)
    ELSE IF output.kind = "OBJECT" THEN
        LET r == materialize_output_object_fields(objects, output.type, used_objects, depth + 1) IN
        IF r.exc # "" THEN r
        ELSE IF r.str # <<>> THEN
            Returned((IF include_name THEN Name(output.name) ELSE <<>>)
                     \o Punct("{") \o r.str \o Punct("}") \o Punct(","), r.used)
        ELSE Returned(<<>>, r.used)
    ELSE IF output.kind = "NON_NULL" \/ output.kind = "LIST" THEN
        LET base_oftype == get_base_oftype(output.ofType) IN
        IF base_oftype.kind = "SCALAR" THEN
            Returned(Name(output.name) \o Punct(","), used_objects)
        ELSE
            LET r == materialize_output(objects, base_oftype, used_objects, FALSE, depth + 1) IN
            IF r.exc # "" THEN r
            ELSE IF r.str # <<>> THEN
                IF include_name THEN Returned(Name(output.name) \o r.str \o Punct(","), r.used)
                ELSE Returned(r.str, r.used)
            ELSE Returned(<<>>, r.used)
    ELSE IF include_name THEN Returned(Name(output.name) \o Punct(","), used_objects)
    ELSE Returned(<<>>, used_objects)

\* the for loop of materialize_output_object_fields from its i-th field on
materialize_fields_from(objects, fields, i, built_str, used_objects, depth) ==
    IF i > Len(fields) THEN Returned(built_str, used_objects)
    ELSE
        LET r == materialize_output(objects, fields[i], used_objects, TRUE, depth + 1) IN
        IF r.exc # "" THEN r
        ELSE materialize_fields_from(objects, fields, i + 1,
                IF r.str # <<>> /\ r.str # Punct("{}") THEN built_str \o r.str ELSE built_str,
                r.used, depth)

\* the cycle test with > in place of >=
seen_max_cycles_strict(used_objects, object_name) == Count(used_objects, object_name) > MAX_OBJECT_CYCLES

\* the cycle test of materialize_output_object_fields
seen_max_cycles(used_objects, object_name) == Count(used_objects, object_name) >= MAX_OBJECT_CYCLES

materialize_output_object_fields(objects, object_name, used_objects, depth) ==
    IF depth > RecursionLimit THEN Raised("RecursionError", used_objects)
    ELSE IF seen_max_cycles(used_objects, object_name) THEN Returned(<<>>, used_objects)
    ELSE IF object_name \notin DOMAIN objects THEN Raised("KeyError", Append(used_objects, object_name))
    ELSE materialize_fields_from(objects, objects[object_name].fields, 1, <<>>,
                                 Append(used_objects, object_name), depth)

----------------------------------------------------------------------------
(* The object types the output side runs on *)

ObjectNames == {"A", "B", "C"}

ObjectOrder == <<"A", "B", "C">>

\* how a schema wraps its object-typed fields
Wraps == {"OBJECT", "NON_NULL", "LIST"}

\* a field of object type T named n, wrapped as w
ObjectField(n, T, w) ==
    IF w = "OBJECT" THEN Fld("OBJECT", n, T, NoType)
    ELSE IF w = "NON_NULL" THEN NonNull(n, Fld("OBJECT", T, T, NoType))
    ELSE ListOf(n, NonNull(T, Fld("OBJECT", T, T, NoType)))

RECURSIVE FieldsOf(_, _, _, _)

\* the object-typed fields of T, one per edge <<T, U>> of `edges`, from the
\* i-th candidate target on
FieldsOf(T, edges, w, i) ==
    IF i > Len(ObjectOrder) THEN <<>>
    ELSE (IF <<T, ObjectOrder[i]>> \in edges
          THEN <<ObjectField("to" \o ObjectOrder[i], ObjectOrder[i], w)>> ELSE <<>>)
         \o FieldsOf(T, edges, w, i + 1)

\* the scalar field id, wrapped as w: id: ID, id: ID! or id: [ID!]
IdField(w) ==
    IF w = "OBJECT" THEN Scalar("id", "ID")
    ELSE IF w = "NON_NULL" THEN NonNull("id", Scalar("ID", "ID"))
    ELSE ListOf("id", NonNull("ID", Scalar("ID", "ID")))

\* the schema whose object types reference each other along `edges`; the
\* types of `withId` carry the scalar field id
SchemaOf(edges, withId, w) ==
    [T \in ObjectNames |->
        [fields |-> (IF T \in withId THEN <<IdField(w)>> ELSE <<>>)
                    \o FieldsOf(T, edges, w, 1)]]

\* every reference graph over the object types, cyclic ones included
Schemas == {SchemaOf(e, s, w) : e \in SUBSET (ObjectNames \X ObjectNames), s \in SUBSET ObjectNames, w \in Wraps}

\* the names of sibling fields of one object type
SiblingName == <<"b1", "b2", "b3">>

\* the schema in which A has its id and k sibling fields of type B, and B
\* has its id
SiblingSchema(k, w) ==
    [T \in ObjectNames |->
        [fields |-> IF T = "A" THEN <<IdField(w)>> \o [i \in 1..k |-> ObjectField(SiblingName[i], "B", w)]
                    ELSE IF T = "B" THEN <<IdField(w)>>
                    ELSE <<>>]]

\* A with one, two and three sibling fields of type B
SiblingSchemas == {SiblingSchema(k, w) : k \in 1..Len(SiblingName), w \in Wraps}

\* the output descriptor of an operation returning object type T
OutputsOf(T) == {Fld("OBJECT", T, T, NoType), NonNull(T, Fld("OBJECT", T, T, NoType))}

----------------------------------------------------------------------------
(* Python values that cross the transport *)

\* a dict and a tuple answer `key in x` and x[key] differently
PyDict(d) == [py |-> "dict", d |-> d]

PyTuple(items) == [py |-> "tuple", items |-> items]

PyNone == [py |-> "None"]

\* `key in x` for a string key: a dict looks among its keys, a tuple among
\* its items, none of which is a string here
Contains(x, key) == x.py = "dict" /\ key \in DOMAIN x.d

NonNullMessage == "Cannot return null for non-nullable field Transaction.payer."

OtherMessage == "Syntax Error: Unexpected Name"

\* a response carrying one error
ErrorResponse(message, lines) ==
    PyDict([errors |-> << [message |-> message,
                           locations |-> [i \in DOMAIN lines |-> [line |-> lines[i], column |-> 5]]] >>])

\* a response carrying data for the operation
DataResponse(value) == PyDict([data |-> value])

\* "Cannot return null for non-nullable field" in error["message"]
\* a message test that takes every error for the non-null violation
is_non_null_message_any(message) == TRUE

is_non_null_message(message) == message = NonNullMessage

----------------------------------------------------------------------------
(* Retrier *)

max_retries == 3

\* line.count("{") and line.count("}") of a payload line (a token sequence)
Opens(line) == Count(line, <<"punct", "{">>)

Closes(line) == Count(line, <<"punct", "}">>)

RECURSIVE scan_block_end(_, _, _, _)

\* from 0-based line i on, with `depth` braces open and `seen` telling
\* whether the block has started: the 0-based line closing the block
scan_block_end(lines, i, depth, seen) ==
    IF i >= Len(lines) THEN -1
    ELSE LET d == depth + Opens(lines[i + 1]) - Closes(lines[i + 1])
             s == seen \/ Opens(lines[i + 1]) > 0
         IN IF s /\ d <= 0 THEN i ELSE scan_block_end(lines, i + 1, d, s)

\* retrier.utils.find_block_end(payload, start_line): the last line of the
\* first selection block that starts at or after 0-based line start_line;
\* with no such block the span is empty
find_block_end(payload, start_line) ==
    LET e == scan_block_end(payload, start_line, 0, FALSE) IN
    IF e = -1 THEN start_line - 1 ELSE e

\* retrier.utils.remove_lines_within_range(payload, start, end): the payload
\* without its 0-based lines start..end
remove_lines_within_range(payload, start, end) ==
    Slice(payload, 0, start) \o Slice(payload, end + 1, Len(payload))

\* the repair with the 1-based line number used as the 0-based index
get_new_payload_from_line_number(payload, location) ==
    LET line_number == location.line
        block_end == find_block_end(payload, line_number)
    IN remove_lines_within_range(payload, line_number, block_end)

get_new_payload_for_retry_non_null(payload, location) ==
    LET line_number == location.line
        block_end == find_block_end(payload, line_number - 1)
    IN remove_lines_within_range(payload, line_number - 1, block_end)

RECURSIVE repair_from(_, _, _)

\* for location in locations: payload = get_new_payload_for_retry_non_null(payload, location)
repair_from(payload, locations, i) ==
    IF i > Len(locations) THEN payload
    ELSE repair_from(get_new_payload_for_retry_non_null(payload, locations[i]), locations, i + 1)

\* what the server answers to its n-th request
Answer(server, n) == IF n <= Len(server) THEN server[n] ELSE server[Len(server)]

\* utils.request_utils.send_graphql_request(url, payload) on the n-th request:
\* the pair (parsed response, raw HTTP response)
send_graphql_request(server, n) == PyTuple(<<Answer(server, n), [py |-> "Response"]>>)

\* an outcome of retry: the pair it returns, the payloads it sent, and the
\* exception it ended with ("" when it returned)
RetryOutcome(response, success, sent, exc) ==
    [response |-> response, success |-> success, sent |-> sent, exc |-> exc]

RECURSIVE retry(_, _, _, _, _)

\* Retrier.retry(url, payload, response, retry_count); sent are the payloads
\* this Retrier has sent so far
retry(payload, response, retry_count, server, sent) ==
    IF response.py # "dict" THEN
        \* response["errors"] on a tuple
        RetryOutcome(response, FALSE, sent, "TypeError")
    ELSE
    LET error == response.d.errors[1] IN
    IF is_non_null_message(error.message) THEN
        LET new_payload == repair_from(payload, error.locations, 1)
            new_response == send_graphql_request(server, Len(sent) + 1)
            now_sent == Append(sent, new_payload)
        IN IF Contains(new_response, "errors") THEN
               IF retry_count < max_retries
               THEN retry(new_payload, new_response, retry_count + 1, server, now_sent)
               ELSE RetryOutcome(new_response, FALSE, now_sent, "")
           ELSE RetryOutcome(new_response, TRUE, now_sent, "")
    ELSE RetryOutcome(response, FALSE, sent, "")

----------------------------------------------------------------------------
(* The payloads and servers the Retrier runs on *)

\* the lines of a prettified payload: `name {`, `name` and `}`
OpenLine(n) == << <<"name", n>>, <<"punct", "{">> >>

NameLine(n) == << <<"name", n>> >>

CloseLine == << <<"punct", "}">> >>

Payloads ==
    { << OpenLine("mutation"), OpenLine("createTx"), NameLine("id"), OpenLine("payer"),
         NameLine("id"), NameLine("name"), CloseLine, OpenLine("payee"), NameLine("id"),
         CloseLine, NameLine("amount"), CloseLine, CloseLine >>,
      << OpenLine("mutation"), OpenLine("createTx"), OpenLine("payer"), NameLine("id"),
         OpenLine("bank"), NameLine("id"), CloseLine, CloseLine, NameLine("amount"),
         OpenLine("payee"), NameLine("name"), CloseLine, CloseLine, CloseLine >> }

\* the 1-based lines of a payload that start a selection block
BlockLines(payload) == {l \in 1..Len(payload) : Opens(payload[l]) = 1}

\* the location lists of an error against a payload: one line, or two
\* block lines
LocationLists(payload) ==
    {<<l>> : l \in 1..Len(payload)}
    \cup {<<l, k>> : l \in BlockLines(payload), k \in BlockLines(payload)}

\* what a server can answer to a request: the non-null error at the
\* payload's 3rd or 4th line, another error, or data
Answers ==
    {ErrorResponse(NonNullMessage, <<l>>) : l \in {3, 4}}
    \cup {ErrorResponse(OtherMessage, <<1>>),
          DataResponse([createTx |-> PyDict([id |-> "i1"])])}

\* a server: its answers to the first requests, the last one repeating
Servers == UNION {[1..n -> Answers] : n \in 1..MaxAnswers}

----------------------------------------------------------------------------
(* Payload assembly: RegularMutationMaterializer and RegularQueryMaterializer *)

\* the object types of the schema the operations return
EngineObjects ==
    [ User |-> [fields |-> << NonNull("id", Scalar("ID", "ID")), Scalar("name", "String"),
                              ListOf("posts", NonNull("Post", Fld("OBJECT", "Post", "Post", NoType))) >>],
      Post |-> [fields |-> << NonNull("id", Scalar("ID", "ID")),
                              NonNull("author", Fld("OBJECT", "User", "User", NoType)) >>] ]

\* RegularMaterializer.__init__(self, objects, operator_info, input_objects,
\* enums, logger) called with nargs arguments: all five are required
RegularMaterializer_init(nargs) == IF nargs = 5 THEN "" ELSE "TypeError"

\* RegularMutationMaterializer.__init__(self, objects, mutations, input_objects,
\* enums): super().__init__(objects, mutations, input_objects, enums)
RegularMutationMaterializer_init(nargs) ==
    IF nargs # 4 THEN "TypeError" ELSE RegularMaterializer_init(4)

\* RegularQueryMaterializer.__init__(self, objects, queries, input_objects,
\* enums, logger): super().__init__(objects, queries, input_objects, enums, logger)
RegularQueryMaterializer_init(nargs) ==
    IF nargs # 5 THEN "TypeError" ELSE RegularMaterializer_init(5)

\* the parameters of RegularMaterializer.materialize_inputs
materialize_inputs_params == {"operator_info", "inputs", "objects_bucket"}

\* the parameters of RegularMaterializer.materialize_output
materialize_output_params == {"output", "used_objects", "include_name", "skip_keys"}

\* the i-th token is part of an argument list: a parenthesis, or a token
\* after a `(` that no `)` has closed
in_arguments(tokens, i) ==
    \/ tokens[i] \in {<<"punct", "(">>, <<"punct", ")">>}
    \/ \E j \in 1..(i - 1) :
          /\ tokens[j] = <<"punct", "(">>
          /\ \A k \in (j + 1)..(i - 1) : tokens[k] # <<"punct", ")">>

\* the positions after which a line ends: after `{`, before and after `}`
\* and at `,`; an argument list stays on its line
line_ends(tokens) ==
    {i \in DOMAIN tokens : /\ ~in_arguments(tokens, i)
                           /\ tokens[i] \in {<<"punct", "{">>, <<"punct", "}">>, <<"punct", ",">>}}
    \cup {i - 1 : i \in {j \in DOMAIN tokens : ~in_arguments(tokens, j) /\ tokens[j] = <<"punct", "}">>}}

\* the tokens that stay: all but the commas between selections
line_tokens(tokens, ends, n) ==
    LET at == {i \in DOMAIN tokens :
                  /\ Cardinality({e \in ends : e < i}) = n
                  /\ (in_arguments(tokens, i) \/ tokens[i] # <<"punct", ",">>)}
    IN IF at = {} THEN <<>>
       ELSE LET first == CHOOSE i \in at : \A j \in at : i <= j
            IN [k \in 1..Cardinality(at) |-> tokens[first + k - 1]]

\* materializers.utils.prettify_graphql_payload: the payload, one selection
\* per line
prettify_graphql_payload(tokens) ==
    LET ends == line_ends(tokens)
        all == [n \in 1..(Cardinality(ends) + 1) |-> line_tokens(tokens, ends, n - 1)]
        nonempty(line) == line # <<>>
    IN SelectSeq(all, nonempty)

\* an outcome of get_payload: the payload (a list of lines), the used
\* objects map, and the exception it ended with
Payload(lines, used) == [exc |-> "", payload |-> lines, used |-> used]

NoPayload(exc) == [exc |-> exc, payload |-> <<>>, used |-> EmptyDict]

\* RegularMutationMaterializer.get_payload: its first call is
\* self.materialize_inputs(..., max_depth=MAX_INPUT_DEPTH)
mutation_get_payload(mutation_name, objects_bucket) ==
    IF "max_depth" \notin materialize_inputs_params THEN {NoPayload("TypeError")}
    ELSE IF "max_depth" \notin materialize_output_params THEN {NoPayload("TypeError")}
    ELSE {NoPayload("NotReached")}

\* RegularQueryMaterializer.get_payload from the outcome of its
\* materialize_inputs call on
query_payload_from(query_name, query_inputs) ==
    LET query_info == Operations[query_name] IN
    IF query_inputs.exc # "" THEN NoPayload(query_inputs.exc)
    ELSE LET query_outputs == materialize_output(EngineObjects, query_info.output, <<>>, FALSE, 1) IN
         IF query_outputs.exc # "" THEN NoPayload(query_outputs.exc)
         ELSE Payload(prettify_graphql_payload(
                  Name("query") \o Punct("{") \o Name(query_name)
                  \o (IF query_inputs.str # <<>>
                      THEN Punct("(") \o query_inputs.str \o Punct(")") ELSE <<>>)
                  \o query_outputs.str \o Punct("}")),
                query_inputs.used)

\* RegularQueryMaterializer.get_payload
query_get_payload(query_name, objects_bucket) ==
    LET query_info == Operations[query_name] IN
    { query_payload_from(query_name, query_inputs)
      : query_inputs \in materialize_inputs(query_info, query_info.inputs, objects_bucket, EmptyDict, 1) }

----------------------------------------------------------------------------
(* FEngine *)

NO_DATA_COUNT_AS_SUCCESS == FALSE

\* JSON null as the value of an id
NullId == "null"

\* fuzzer.utils.put_in_object_bucket: the bucket with val among the
\* identifiers of object_name
put_in_object_bucket(objects_bucket, object_name, val) ==
    IF object_name \in DOMAIN objects_bucket
    THEN IF val \in Range(objects_bucket[object_name]) THEN objects_bucket
         ELSE DictPut(objects_bucket, object_name, Append(objects_bucket[object_name], val))
    ELSE DictPut(objects_bucket, object_name, <<val>>)

RECURSIVE Without(_, _)

\* the list without the value val
Without(list, val) ==
    IF list = <<>> THEN <<>>
    ELSE IF Head(list) = val THEN Without(Tail(list), val)
    ELSE <<Head(list)>> \o Without(Tail(list), val)

\* fuzzer.utils.remove_from_object_bucket: the bucket without val among the
\* identifiers of object_name
remove_from_object_bucket(objects_bucket, object_name, val) ==
    IF object_name \in DOMAIN objects_bucket
    THEN DictPut(objects_bucket, object_name, Without(objects_bucket[object_name], val))
    ELSE objects_bucket

\* utils.parser_utils.get_output_type: the named type the operation returns
get_output_type(operator_name) ==
    LET output == Operations[operator_name].output IN
    (IF output.kind \in {"NON_NULL", "LIST"} THEN get_base_oftype(output.ofType) ELSE output).type

\* fengine.utils.check_is_data_empty(data): every value of data is empty
check_is_data_empty(data) ==
    \A k \in DOMAIN data : data[k].py = "dict" /\ DOMAIN data[k].d = {}

\* `not graphql_response`
Falsy(x) == x.py = "None" \/ (x.py = "dict" /\ DOMAIN x.d = {})

\* an outcome of run_regular_mutation / run_regular_query: the pair it
\* returns, or the exception that escapes it; caught is the exception the
\* handlers turned into a failure; sent are the payloads the server received
EngineOutcome(bucket, success, sent, caught, escaped) ==
    [bucket |-> bucket, success |-> success, sent |-> sent, caught |-> caught, escaped |-> escaped]

\* the body of the try block ends by returning or by raising exc
Return(bucket, success, sent) == EngineOutcome(bucket, success, sent, "", "")

Raise(exc, bucket, sent) == [bucket |-> bucket, success |-> FALSE, sent |-> sent, raised |-> exc]

\* except clauses that hand back a fresh bucket
mutation_handler_fresh_bucket(exc, objects_bucket, sent) ==
    IF exc = "BdbQuit" THEN EngineOutcome(objects_bucket, FALSE, sent, "", exc)
    ELSE EngineOutcome(EmptyDict, FALSE, sent, exc, "")

\* except clauses that catch HardDependencyNotMetException only
mutation_handler_hard_dependency_only(exc, objects_bucket, sent) ==
    IF exc = "HardDependencyNotMetException" THEN EngineOutcome(objects_bucket, FALSE, sent, exc, "")
    ELSE EngineOutcome(objects_bucket, FALSE, sent, "", exc)

\* the except clauses of run_regular_mutation: HardDependencyNotMetException
\* and Exception give (objects_bucket, False), bdb.BdbQuit is raised again
mutation_handler(exc, objects_bucket, sent) ==
    IF exc = "HardDependencyNotMetException" THEN EngineOutcome(objects_bucket, FALSE, sent, exc, "")
    ELSE IF exc = "BdbQuit" THEN EngineOutcome(objects_bucket, FALSE, sent, "", exc)
    ELSE EngineOutcome(objects_bucket, FALSE, sent, exc, "")

\* the except clauses of run_regular_query
query_handler(exc, objects_bucket, sent) ==
    IF exc = "BdbQuit" THEN EngineOutcome(objects_bucket, FALSE, sent, "", exc)
    ELSE EngineOutcome(objects_bucket, FALSE, sent, exc, "")

\* step 3 of run_regular_mutation with UPDATE handled like CREATE
process_mutation_value_update_inserts(mutation_name, objects_bucket, value, used_objects) ==
    IF value.py = "dict" /\ "id" \in DOMAIN value.d THEN
        LET mutation_output_type == get_output_type(mutation_name)
            returned_id == value.d.id
            mutation_type == Operations[mutation_name].mutationType
        IN IF mutation_type \in {"CREATE", "UPDATE"} THEN
               IF returned_id # NullId
               THEN put_in_object_bucket(objects_bucket, mutation_output_type, returned_id)
               ELSE objects_bucket
           ELSE IF mutation_type = "DELETE" /\ mutation_output_type \in DOMAIN used_objects THEN
               remove_from_object_bucket(objects_bucket, mutation_output_type,
                                         used_objects[mutation_output_type])
           ELSE objects_bucket
    ELSE objects_bucket

\* step 3 of run_regular_mutation on the operation's value in data
process_mutation_value(mutation_name, objects_bucket, value, used_objects) ==
    IF value.py = "dict" THEN
        LET mutation_output_type == get_output_type(mutation_name) IN
        IF "id" \in DOMAIN value.d THEN
            LET returned_id == value.d.id
                mutation_type == Operations[mutation_name].mutationType
            IN IF mutation_type = "CREATE" THEN
                   IF returned_id # NullId
                   THEN put_in_object_bucket(objects_bucket, mutation_output_type, returned_id)
                   ELSE objects_bucket
               ELSE IF mutation_type = "UPDATE" THEN objects_bucket
               ELSE IF mutation_type = "DELETE" THEN
                   IF mutation_output_type \in DOMAIN used_objects
                   THEN remove_from_object_bucket(objects_bucket, mutation_output_type,
                                                  used_objects[mutation_output_type])
                   ELSE objects_bucket
               ELSE objects_bucket
        ELSE objects_bucket
    ELSE objects_bucket

\* step 3 of a query that puts the returned id in the bucket, null included
process_query_value_null_inserts(query_name, objects_bucket, value) ==
    IF value.py = "dict" THEN
        IF "id" \in DOMAIN value.d
        THEN put_in_object_bucket(objects_bucket, get_output_type(query_name), value.d.id)
        ELSE objects_bucket
    ELSE objects_bucket

\* step 3 of run_regular_query on the operation's value in data
process_query_value(query_name, objects_bucket, value) ==
    IF value.py = "dict" THEN
        LET query_output_type == get_output_type(query_name) IN
        IF "id" \in DOMAIN value.d THEN
            LET returned_id == value.d.id IN
            IF returned_id # NullId
            THEN put_in_object_bucket(objects_bucket, query_output_type, returned_id)
            ELSE objects_bucket
        ELSE objects_bucket
    ELSE objects_bucket

\* steps 2 and 3 with a null value counted as a success
send_and_interpret_null_succeeds(is_mutation, name, objects_bucket, payload, used_objects, server) ==
    LET sent == <<payload>>
        graphql_response == send_graphql_request(server, 1).items[1]
    IN
    IF Falsy(graphql_response) THEN Return(objects_bucket, FALSE, sent)
    ELSE
    LET r == IF Contains(graphql_response, "errors")
             THEN retry(payload, graphql_response, 0, server, sent)
             ELSE RetryOutcome(graphql_response, TRUE, sent, "")
    IN
    IF r.exc # "" THEN Raise(r.exc, objects_bucket, r.sent)
    ELSE IF ~r.success THEN Return(objects_bucket, FALSE, r.sent)
    ELSE IF ~Contains(r.response, "data") THEN Return(objects_bucket, FALSE, r.sent)
    ELSE IF name \notin DOMAIN r.response.d.data THEN Raise("KeyError", objects_bucket, r.sent)
    ELSE
    LET value == r.response.d.data[name] IN
    IF value.py = "None" THEN Return(objects_bucket, TRUE, r.sent)
    ELSE IF check_is_data_empty(r.response.d.data) THEN Return(objects_bucket, FALSE, r.sent)
    ELSE Return(IF is_mutation
                THEN process_mutation_value(name, objects_bucket, value, used_objects)
                ELSE process_query_value(name, objects_bucket, value),
                TRUE, r.sent)

\* steps 2 and 3 of run_regular_mutation / run_regular_query: the payload is
\* sent and the response interpreted
send_and_interpret(is_mutation, name, objects_bucket, payload, used_objects, server) ==
    LET sent == <<payload>>
        first == send_graphql_request(server, 1)
        graphql_response == first.items[1]
    IN
    IF Falsy(graphql_response) THEN Return(objects_bucket, FALSE, sent)
    ELSE
    LET r == IF Contains(graphql_response, "errors")
             THEN retry(payload, graphql_response, 0, server, sent)
             ELSE RetryOutcome(graphql_response, TRUE, sent, "")
    IN
    IF r.exc # "" THEN Raise(r.exc, objects_bucket, r.sent)
    ELSE IF ~r.success THEN Return(objects_bucket, FALSE, r.sent)
    ELSE IF ~Contains(r.response, "data") THEN Return(objects_bucket, FALSE, r.sent)
    ELSE IF name \notin DOMAIN r.response.d.data THEN Raise("KeyError", objects_bucket, r.sent)
    ELSE
    LET value == r.response.d.data[name] IN
    IF value.py = "None" THEN Return(objects_bucket, NO_DATA_COUNT_AS_SUCCESS, r.sent)
    ELSE IF check_is_data_empty(r.response.d.data) THEN Return(objects_bucket, FALSE, r.sent)
    ELSE Return(IF is_mutation
                THEN process_mutation_value(name, objects_bucket, value, used_objects)
                ELSE process_query_value(name, objects_bucket, value),
                TRUE, r.sent)

\* the try block of run_regular_mutation / run_regular_query once the
\* materializer is constructed
materialize_send_interpret(is_mutation, name, objects_bucket, server) ==
    { IF p.exc # "" THEN Raise(p.exc, objects_bucket, <<>>)
      ELSE send_and_interpret(is_mutation, name, objects_bucket, p.payload, p.used, server)
      : p \in IF is_mutation THEN mutation_get_payload(name, objects_bucket)
                             ELSE query_get_payload(name, objects_bucket) }

\* an outcome of the try block, through the except clauses
Handled(is_mutation, t) ==
    IF "raised" \in DOMAIN t
    THEN IF is_mutation THEN mutation_handler(t.raised, t.bucket, t.sent)
                        ELSE query_handler(t.raised, t.bucket, t.sent)
    ELSE t

\* FEngine.run_regular_mutation(mutation_name, objects_bucket), against a server
run_regular_mutation(mutation_name, objects_bucket, server) ==
    \* RegularMutationMaterializer(self.objects, self.mutations, self.input_objects, self.enums)
    LET constructed == RegularMutationMaterializer_init(4) IN
    IF constructed # "" THEN {mutation_handler(constructed, objects_bucket, <<>>)}
    ELSE {Handled(TRUE, t) : t \in materialize_send_interpret(TRUE, mutation_name, objects_bucket, server)}

\* FEngine.run_regular_query(query_name, objects_bucket), against a server
run_regular_query(query_name, objects_bucket, server) ==
    \* RegularQueryMaterializer(self.objects, self.queries, self.input_objects, self.enums)
    LET constructed == RegularQueryMaterializer_init(4) IN
    IF constructed # "" THEN {query_handler(constructed, objects_bucket, <<>>)}
    ELSE {Handled(FALSE, t) : t \in materialize_send_interpret(FALSE, query_name, objects_bucket, server)}

----------------------------------------------------------------------------
(* The servers the engine runs against *)

\* what a server can answer to the request of operation `name`
EngineAnswers(name) ==
    { PyNone,
      ErrorResponse(NonNullMessage, <<3>>),
      ErrorResponse(OtherMessage, <<1>>),
      PyDict([extensions |-> PyNone]),
      DataResponse([n \in {name} |-> PyNone]),
      DataResponse([n \in {name} |-> PyDict(EmptyDict)]),
      DataResponse([n \in {name} |-> PyDict([name |-> "x"])]),
      DataResponse([n \in {name} |-> [py |-> "bool"]]) }
    \cup {DataResponse([n \in {name} |-> PyDict([id |-> i])]) : i \in Ids \cup {NullId}}

\* a server answering an operation: one answer, and after an error the
\* answer to the repaired payloads
EngineServers(name) ==
    {<<a>> : a \in EngineAnswers(name)}
    \cup {<<a, b>> : a \in {ErrorResponse(NonNullMessage, <<3>>)},
                    b \in {DataResponse([n \in {name} |-> PyDict([id |-> IdName[1]])])}}

MutationNames == {n \in OpNames : Operations[n].kind = "mutation"}

QueryNames == {n \in OpNames : Operations[n].kind = "query"}

----------------------------------------------------------------------------
(* The entry points and their arguments *)

NotRun == [exc |-> "not run", str |-> <<>>, used |-> EmptyDict]

RtNotCalled == RetryOutcome(PyNone, FALSE, <<>>, "not called")

EngNotCalled == [op |-> "", given |-> EmptyDict, server |-> <<>>,
                 result |-> EngineOutcome(EmptyDict, FALSE, <<>>, "", "")]

\* each part before its entry point is called
InIdle ==
    /\ in_op = "createUser"
    /\ in_bucket = EmptyDict
    /\ in_result = NotRun
    /\ in_bucket_after = EmptyDict

OutIdle ==
    /\ out_objects = SchemaOf({}, {}, "OBJECT")
    /\ out_output = Fld("OBJECT", "A", "A", NoType)
    /\ out_result = NotRun

RtIdle ==
    /\ rt_payload = <<>>
    /\ rt_response = PyNone
    /\ rt_count = 0
    /\ rt_server = <<>>
    /\ rt_result = RtNotCalled

EngIdle ==
    /\ eng_bucket = EmptyDict
    /\ eng_last = EngNotCalled

ResIdle ==
    /\ res_objects = EmptyDict
    /\ res_done = FALSE

IntNotCalled == [op |-> "", given |-> EmptyDict, used |-> EmptyDict, server |-> <<>>,
                 result |-> EngineOutcome(EmptyDict, FALSE, <<>>, "", "")]

IntIdle ==
    /\ int_bucket = EmptyDict
    /\ int_last = IntNotCalled

SeqNotCalled == [whole |-> FALSE, success |-> FALSE]

SeqIdle ==
    /\ seq_bucket = EmptyDict
    /\ seq_last = SeqNotCalled
    /\ seq_returned = {}

OrchNotCalled == [exc |-> "not called", graph |-> [nodes |-> {}, edges |-> {}], handed |-> <<>>]

OrchIdle ==
    /\ orch_graph = [nodes |-> {}, edges |-> {}]
    /\ orch_maxLen = 0
    /\ orch_result = OrchNotCalled

----------------------------------------------------------------------------
(* Specification of one materialize_inputs call *)

\* what used_objects can hold when get_payload is entered: nothing, or what
\* an earlier get_payload on the materializer recorded
StaleUsed == {EmptyDict} \cup {[t \in {T} |-> i] : T \in TypeNames, i \in Ids}

\* used_objects left as it was on entry
reset_used_objects_keeps(used) == used

\* self.used_objects = {}, the first statement of get_payload
reset_used_objects(used) == EmptyDict

InInit ==
    /\ entry = "materialize_inputs"
    /\ in_op \in OpNames
    /\ in_bucket \in Buckets
    /\ in_result = NotRun
    /\ in_bucket_after = in_bucket
    /\ OutIdle /\ RtIdle /\ EngIdle /\ ResIdle /\ IntIdle /\ OrchIdle /\ SeqIdle

\* materialize_inputs(operator_info, operator_info["inputs"], objects_bucket)
\* on a materializer whose used_objects was just reset; the materializer
\* holds the caller's bucket object and assigns to none of its keys
MaterializeInputs ==
    /\ entry = "materialize_inputs"
    /\ in_result = NotRun
    /\ \E stale \in StaleUsed :
         in_result' \in materialize_inputs(Operations[in_op], Operations[in_op].inputs, in_bucket,
                                           reset_used_objects(stale), 1)
    /\ in_bucket_after' = objects_bucket_after(in_bucket, in_result')
    /\ UNCHANGED <<entry, in_op, in_bucket, out_vars, rt_vars, eng_vars, res_vars, int_vars, orch_vars, seq_vars>>

InNext == MaterializeInputs

SpecInput == InInit /\ [][InNext]_vars

----------------------------------------------------------------------------
(* Specification of one materialize_output call *)

OutInit ==
    /\ entry = "materialize_output"
    /\ out_objects \in Schemas \cup SiblingSchemas
    /\ out_output \in UNION {OutputsOf(T) : T \in ObjectNames}
    /\ out_result = NotRun
    /\ InIdle /\ RtIdle /\ EngIdle /\ ResIdle /\ IntIdle /\ OrchIdle /\ SeqIdle

\* materialize_output(operator_info["output"], [], False), as get_payload
\* calls it
MaterializeOutput ==
    /\ entry = "materialize_output"
    /\ out_result = NotRun
    /\ out_result' = materialize_output(out_objects, out_output, <<>>, FALSE, 1)
    /\ UNCHANGED <<entry, out_objects, out_output, in_vars, rt_vars, eng_vars, res_vars, int_vars, orch_vars, seq_vars>>

OutNext == MaterializeOutput

SpecOutput == OutInit /\ [][OutNext]_vars

----------------------------------------------------------------------------
(* Specification of one Retrier.retry call *)

RtInit ==
    /\ entry = "retry"
    /\ rt_payload \in Payloads
    /\ rt_response \in {ErrorResponse(NonNullMessage, ls) : ls \in LocationLists(rt_payload)}
                      \cup {ErrorResponse(OtherMessage, <<l>>) : l \in BlockLines(rt_payload)}
    /\ rt_count \in 0..max_retries
    /\ rt_server \in Servers
    /\ rt_result = RtNotCalled
    /\ InIdle /\ OutIdle /\ EngIdle /\ ResIdle /\ IntIdle /\ OrchIdle /\ SeqIdle

\* Retrier(logger).retry(url, payload, response, retry_count); the engine
\* calls it with retry_count = 0, retry itself with retry_count + 1
Retry ==
    /\ entry = "retry"
    /\ rt_result = RtNotCalled
    /\ rt_result' = retry(rt_payload, rt_response, rt_count, rt_server, <<>>)
    /\ UNCHANGED <<entry, rt_payload, rt_response, rt_count, rt_server, in_vars, out_vars, eng_vars, res_vars, int_vars, orch_vars, seq_vars>>

RtNext == Retry

SpecRetrier == RtInit /\ [][RtNext]_vars

----------------------------------------------------------------------------
(* Specification of the engine: a sequence of operations on one bucket *)

EngInit ==
    /\ entry = "engine"
    /\ eng_bucket \in Buckets
    /\ eng_last = EngNotCalled
    /\ InIdle /\ OutIdle /\ RtIdle /\ ResIdle /\ IntIdle /\ OrchIdle /\ SeqIdle

\* objects_bucket, success = run_regular_mutation(mutation_name, objects_bucket);
\* an exception that escapes leaves the caller's bucket as it is
RunMutation ==
    /\ entry = "engine"
    /\ eng_last.result.escaped = ""
    /\ \E name \in MutationNames : \E server \in EngineServers(name) :
         \E result \in run_regular_mutation(name, eng_bucket, server) :
            /\ eng_last' = [op |-> name, given |-> eng_bucket, server |-> server, result |-> result]
            /\ eng_bucket' = result.bucket
    /\ UNCHANGED <<entry, in_vars, out_vars, rt_vars, res_vars, int_vars, orch_vars, seq_vars>>

\* objects_bucket, success = run_regular_query(query_name, objects_bucket)
RunQuery ==
    /\ entry = "engine"
    /\ eng_last.result.escaped = ""
    /\ \E name \in QueryNames : \E server \in EngineServers(name) :
         \E result \in run_regular_query(name, eng_bucket, server) :
            /\ eng_last' = [op |-> name, given |-> eng_bucket, server |-> server, result |-> result]
            /\ eng_bucket' = result.bucket
    /\ UNCHANGED <<entry, in_vars, out_vars, rt_vars, res_vars, int_vars, orch_vars, seq_vars>>

EngNext == RunMutation \/ RunQuery

SpecEngine == EngInit /\ [][EngNext]_vars

\* the Retrier called on its own, or the engine run on its own
SpecRetrierEngine == (RtInit \/ EngInit) /\ [][RtNext \/ EngNext]_vars

----------------------------------------------------------------------------
(* ObjectDepdenencyResolver *)

BUILT_IN_TYPES == {"ID", "Int", "Float", "String", "Boolean"}

BUILT_IN_TYPE_KINDS == {"SCALAR", "OBJECT", "INTERFACE", "UNION", "ENUM", "INPUT_OBJECT", "LIST", "NON_NULL"}

\* a Python str; a descriptor is a PyDict
PyStr(s) == [py |-> "str", s |-> s]

\* x not in BUILT_IN_TYPES: a dict equals none of the list's strings
not_in_BUILT_IN_TYPES(x) == ~(x.py = "str" /\ x.s \in BUILT_IN_TYPES)

\* the two lists after the loop body of parse_gql_object ran on one field
parse_field(field, deps) ==
    LET first == IF /\ field.kind \in BUILT_IN_TYPE_KINDS
                    /\ field.kind # "NON_NULL"
                    /\ field.kind # "LIST"
                    /\ not_in_BUILT_IN_TYPES(PyStr(field.type))
                 THEN [deps EXCEPT !.soft = Append(@, PyStr(field.type))]
                 ELSE deps
    IN IF field.kind = "NON_NULL" THEN
           IF not_in_BUILT_IN_TYPES(PyDict(field.ofType))
           THEN [first EXCEPT !.hard = Append(@, PyDict(field.ofType))] ELSE first
       ELSE IF field.kind = "LIST" THEN
           IF not_in_BUILT_IN_TYPES(PyDict(field.ofType))
           THEN [first EXCEPT !.soft = Append(@, PyDict(field.ofType))] ELSE first
       ELSE first

RECURSIVE parse_fields_from(_, _, _)

\* for field in gql_object["fields"], from the i-th field on
parse_fields_from(fields, i, deps) ==
    IF i > Len(fields) THEN deps
    ELSE parse_fields_from(fields, i + 1, parse_field(fields[i], deps))

\* parse_gql_object(gql_object): the object with its two lists set
parse_gql_object(gql_object) ==
    LET deps == parse_fields_from(gql_object.fields, 1, [soft |-> <<>>, hard |-> <<>>])
    IN [fields |-> gql_object.fields, softDependsOn |-> deps.soft, hardDependsOn |-> deps.hard]

\* resolve(): parse_gql_object on every object of self.objects
resolve(objects) == [k \in DOMAIN objects |-> parse_gql_object(objects[k])]

\* the fields an object of the schema may declare
FieldChoices ==
    { NonNull("id", Scalar("ID", "ID")),
      ListOf("tags", Scalar("String", "String")),
      Scalar("name", "String"),
      Fld("OBJECT", "author", "User", NoType),
      NonNull("owner", Fld("OBJECT", "User", "User", NoType)),
      ListOf("posts", Fld("OBJECT", "Post", "Post", NoType)),
      NonNull("drafts", ListOf("drafts", Fld("OBJECT", "Post", "Post", NoType))),
      Fld("ENUM", "role", "Role", NoType),
      Scalar("born", "Date") }

\* the field lists of at most MaxLen fields
FieldLists == UNION {[1..n -> FieldChoices] : n \in 0..MaxLen}

\* the parsed objects before the resolver ran
ParsedObjects == [TypeNames -> {[fields |-> fs] : fs \in FieldLists}]

----------------------------------------------------------------------------
(* Specification of ObjectDepdenencyResolver(objects).resolve() *)

ResInit ==
    /\ entry = "resolve"
    /\ res_objects \in ParsedObjects
    /\ res_done = FALSE
    /\ InIdle /\ OutIdle /\ RtIdle /\ EngIdle /\ IntIdle /\ OrchIdle /\ SeqIdle

Resolve ==
    /\ entry = "resolve"
    /\ res_done = FALSE
    /\ res_objects' = resolve(res_objects)
    /\ res_done' = TRUE
    /\ UNCHANGED <<entry, in_vars, out_vars, rt_vars, eng_vars, int_vars, orch_vars, seq_vars>>

ResNext == Resolve

SpecResolver == ResInit /\ [][ResNext]_vars

----------------------------------------------------------------------------
(* Specification of steps 2 and 3 of run_regular_mutation and
   run_regular_query: a payload is sent and the response interpreted *)

\* a payload for the operation, as prettify_graphql_payload lays it out
PayloadOf(name) ==
    << OpenLine(Operations[name].kind), OpenLine(name), NameLine("id"), NameLine("name"),
       CloseLine, CloseLine >>

IntInit ==
    /\ entry = "interpret"
    /\ int_bucket \in Buckets
    /\ int_last = IntNotCalled
    /\ InIdle /\ OutIdle /\ RtIdle /\ EngIdle /\ ResIdle /\ OrchIdle /\ SeqIdle

\* the try block from send_graphql_request on, and the except clauses; the
\* used_objects are those materialize_inputs left for the operation on the
\* bucket
Interpret ==
    /\ entry = "interpret"
    /\ int_last = IntNotCalled
    /\ \E name \in OpNames : \E server \in EngineServers(name) :
         \E r \in materialize_inputs(Operations[name], Operations[name].inputs, int_bucket, EmptyDict, 1) :
            /\ r.exc = ""
            /\ LET result == Handled(name \in MutationNames,
                                     send_and_interpret(name \in MutationNames, name,
                                                        objects_bucket_after(int_bucket, r),
                                                        PayloadOf(name), r.used, server))
               IN /\ int_last' = [op |-> name, given |-> int_bucket, used |-> r.used,
                                  server |-> server, result |-> result]
                  /\ int_bucket' = result.bucket
    /\ UNCHANGED <<entry, in_vars, out_vars, rt_vars, eng_vars, res_vars, orch_vars, seq_vars>>

IntNext == Interpret

SpecInterpret == IntInit /\ [][IntNext]_vars

\* one materialize_inputs call, or steps 2 and 3 of the engine after one
SpecInputInterpret == (InInit \/ IntInit) /\ [][InNext \/ IntNext]_vars

\* the engine as a whole, or its steps 2 and 3 on their own
SpecEngineInterpret == (EngInit \/ IntInit) /\ [][EngNext \/ IntNext]_vars

----------------------------------------------------------------------------
(* Orchestrator *)

\* the names bound in the module orchestrator.py when the class body runs:
\* `from typing import List` and `from utils.requester import render_seq`
orchestrator_globals == {"List", "render_seq", "Orchestrator"}

\* the class body: `def orchestrate(self) -> List[request]` evaluates its
\* annotation when the def statement runs
Orchestrator_class == IF "request" \in orchestrator_globals THEN "" ELSE "NameError"

\* the methods of networkx.DiGraph among those the orchestrator calls
DiGraph_methods == {"nodes", "out_degree", "in_edges", "add_edges_from"}

\* an outcome of orchestrate or dfs: the exception it ended with, self.graph
\* after it, and the sequences handed to render_seq
OrchOutcome(exc, graph, handed) == [exc |-> exc, graph |-> graph, handed |-> handed]

\* the nodes without out-edges
Leaves(graph) == {v \in graph.nodes : ~\E e \in graph.edges : e[1] = v}

\* utils.requester.render_seq(sequence): runs the sequence and tells the
\* valid from the bug sequences
render_seq(sequence) ==
    { [validSeq |-> <<sequence>>, bugSeq |-> <<>>],
      [validSeq |-> <<>>, bugSeq |-> <<sequence>>] }

\* Orchestrator.dfs(self, sequence, node, n)
dfs(graph, sequence, node, n, handed) ==
    IF Len(sequence) > n THEN {OrchOutcome("", graph, handed)}
    ELSE { IF r.validSeq = <<>> \/ Leaves(graph) = {}
           THEN OrchOutcome("", graph, Append(handed, sequence))
           \* seq.append(node); self.graph.remove(node)
           ELSE IF "remove" \notin DiGraph_methods
           THEN OrchOutcome("AttributeError", graph, Append(handed, sequence))
           \* self.dfs(self, seq, node): one argument too many and no n
           ELSE OrchOutcome("TypeError", graph, Append(handed, sequence))
           : r \in render_seq(sequence) }

\* Orchestrator.orchestrate(self), on a module that could be loaded
orchestrate_body(graph, maxLen) ==
    IF graph.nodes = {} THEN {OrchOutcome("", graph, <<>>)}
    \* self.graph.out_degrees(node)
    ELSE IF "out_degrees" \notin DiGraph_methods THEN {OrchOutcome("AttributeError", graph, <<>>)}
    ELSE IF Leaves(graph) = {} THEN {OrchOutcome("", graph, <<>>)}
    \* dfs(self, [], node, self.maxLen): dfs is no global name
    ELSE IF "dfs" \notin orchestrator_globals THEN {OrchOutcome("NameError", graph, <<>>)}
    ELSE UNION {dfs(graph, <<>>, node, maxLen, <<>>) : node \in Leaves(graph)}

\* Orchestrator(graph, maxLen).orchestrate(), the module loaded first
orchestrate(graph, maxLen) ==
    IF Orchestrator_class # "" THEN {OrchOutcome(Orchestrator_class, graph, <<>>)}
    ELSE orchestrate_body(graph, maxLen)

\* the operations a dependency graph is drawn over
GraphNodes == {"createUser", "updateUser", "deleteUser"}

\* the dependency graphs: an edge <<a, b>> says a needs what b produces
Graphs ==
    UNION { { [nodes |-> N, edges |-> E] : E \in SUBSET {e \in N \X N : e[1] # e[2]} }
            : N \in SUBSET GraphNodes }

----------------------------------------------------------------------------
(* Specification of Orchestrator(graph, maxLen).orchestrate() *)

OrchInit ==
    /\ entry = "orchestrate"
    /\ orch_graph \in Graphs
    /\ orch_maxLen \in 0..MaxLen
    /\ orch_result = OrchNotCalled
    /\ InIdle /\ OutIdle /\ RtIdle /\ EngIdle /\ ResIdle /\ IntIdle /\ SeqIdle

Orchestrate ==
    /\ entry = "orchestrate"
    /\ orch_result = OrchNotCalled
    /\ orch_result' \in orchestrate(orch_graph, orch_maxLen)
    /\ orch_graph' = orch_result'.graph
    /\ UNCHANGED <<entry, orch_maxLen, in_vars, out_vars, rt_vars, eng_vars, res_vars, int_vars, seq_vars>>

OrchNext == Orchestrate

SpecOrchestrator == OrchInit /\ [][OrchNext]_vars

----------------------------------------------------------------------------
(* Specification of a sequence of run_regular_mutation and run_regular_query
   calls on one bucket, empty at first *)

\* the response a call interpreted: the answer to the last request it sent
LastAnswer(server, outcome) == Answer(server, Len(outcome.sent))

\* what a call adds to the identifiers returned so far: the non-null id of
\* the object a successful CREATE mutation or query was answered with, under
\* the operation's output type
ReturnedBy(name, server, outcome) ==
    IF /\ outcome.success
       /\ outcome.sent # <<>>
       /\ (Operations[name].kind = "query" \/ Operations[name].mutationType = "CREATE")
       /\ Contains(LastAnswer(server, outcome), "data")
       /\ LastAnswer(server, outcome).d.data[name].py = "dict"
       /\ "id" \in DOMAIN LastAnswer(server, outcome).d.data[name].d
       /\ LastAnswer(server, outcome).d.data[name].d.id # NullId
    THEN {<<get_output_type(name), LastAnswer(server, outcome).d.data[name].d.id>>}
    ELSE {}

SeqInit ==
    /\ entry = "sequence"
    /\ seq_bucket = EmptyDict
    /\ seq_last = SeqNotCalled
    /\ seq_returned = {}
    /\ InIdle /\ OutIdle /\ RtIdle /\ EngIdle /\ ResIdle /\ IntIdle /\ OrchIdle

\* objects_bucket, success = run_regular_mutation(name, objects_bucket), or
\* run_regular_query, the call as a whole
SeqRun ==
    /\ entry = "sequence"
    /\ \E name \in OpNames : \E server \in EngineServers(name) :
         \E result \in IF name \in MutationNames
                       THEN run_regular_mutation(name, seq_bucket, server)
                       ELSE run_regular_query(name, seq_bucket, server) :
            /\ result.escaped = ""
            /\ seq_last' = [whole |-> TRUE, success |-> result.success]
            /\ seq_bucket' = result.bucket
            /\ seq_returned' = seq_returned \cup ReturnedBy(name, server, result)
    /\ UNCHANGED <<entry, in_vars, out_vars, rt_vars, eng_vars, res_vars, int_vars, orch_vars>>

\* the same call from send_graphql_request on, with the used_objects that
\* materialize_inputs leaves for the operation on the bucket
SeqInterpret ==
    /\ entry = "sequence"
    /\ \E name \in OpNames : \E server \in EngineServers(name) :
         \E r \in materialize_inputs(Operations[name], Operations[name].inputs, seq_bucket, EmptyDict, 1) :
            /\ r.exc = ""
            /\ LET result == Handled(name \in MutationNames,
                                     send_and_interpret(name \in MutationNames, name,
                                                        objects_bucket_after(seq_bucket, r),
                                                        PayloadOf(name), r.used, server))
               IN /\ result.escaped = ""
                  /\ seq_last' = [whole |-> FALSE, success |-> result.success]
                  /\ seq_bucket' = result.bucket
                  /\ seq_returned' = seq_returned \cup ReturnedBy(name, server, result)
    /\ UNCHANGED <<entry, in_vars, out_vars, rt_vars, eng_vars, res_vars, int_vars, orch_vars>>

SeqNext == SeqRun \/ SeqInterpret

SpecSequence == SeqInit /\ [][SeqNext]_vars

----------------------------------------------------------------------------
(* Claims about materialize_inputs *)

\* the bucket holds a live identifier for object type T
Live(objects_bucket, T) == T \in DOMAIN objects_bucket /\ objects_bucket[T] # <<>>

\* the token rendered as the value of input `name` in a built input string
ValueOf(str, name) ==
    LET i == CHOOSE k \in 1..Len(str) : str[k] = <<"name", name>> IN str[i + 2]

\* the operations that record soft dependencies only
SoftOnlyOps == {o \in OpNames : Operations[o].hardDependsOn = EmptyDict
                                /\ Operations[o].softDependsOn # EmptyDict}

\* C1: an operation with a hard dependency on a concrete object type T for
\* which the bucket holds no live identifier (key absent, or identifier list
\* empty) ends materialization with HardDependencyNotMetException and with
\* no other exception, and the bucket is what it was.
C1_UnmetHardDependencyRaises ==
    (/\ in_result # NotRun
     /\ \E n \in DOMAIN Operations[in_op].hardDependsOn :
            /\ Operations[in_op].hardDependsOn[n] # "UNKNOWN"
            /\ ~Live(in_bucket, Operations[in_op].hardDependsOn[n]))
    => (in_result.exc = "HardDependencyNotMetException" /\ in_bucket_after = in_bucket)

\* C6: an input field with only a soft dependency on T is materialized
\* without raising in every bucket state: with a live identifier for T the
\* value is one of the bucket's identifiers for T, otherwise it is a
\* synthesized literal.
C6_SoftDependencyNeverRaises ==
    (in_result # NotRun /\ in_op \in SoftOnlyOps)
    => /\ in_result.exc = ""
       /\ \A n \in DOMAIN Operations[in_op].softDependsOn :
            LET T == Operations[in_op].softDependsOn[n]
                v == ValueOf(in_result.str, n)
            IN IF Live(in_bucket, T)
               THEN v[1] = "quoted" /\ v[2] \in Range(in_bucket[T])
               ELSE v[1] = "literal"

----------------------------------------------------------------------------
(* Claims about materialize_output *)

\* C10: on every schema, self-referential and mutually cyclic object types
\* included, materialize_output returns (it does not recurse until the
\* interpreter gives up), and within one materialization the fields of any
\* single object type are expanded at most MAX_OBJECT_CYCLES times.
C10_OutputTerminatesWithinCycleBound ==
    out_result # NotRun
    => /\ out_result.exc = ""
       /\ \A T \in ObjectNames : Count(out_result.used, T) <= MAX_OBJECT_CYCLES

\* a self-referential type (A.toA: A!) was expanded as often as the bound allows
C10_Witness ==
    /\ out_objects = SchemaOf({<<"A", "A">>}, {"A"}, "NON_NULL")
    /\ out_result # NotRun
    /\ out_result.exc = ""
    /\ <<"name", "toA">> \in Range(out_result.str)
    /\ Count(out_result.used, "A") = MAX_OBJECT_CYCLES

----------------------------------------------------------------------------
(* Claims about the Retrier *)

\* the message of the first error of a response
FirstMessage(response) == response.d.errors[1].message

\* the server answers every request with the non-null error
AlwaysNonNullError(server) == \A i \in DOMAIN server : FirstMessage(server[i]) = NonNullMessage

RtCalled == rt_result # RtNotCalled

\* C7: against a server that answers every request with a 'Cannot return
\* null for non-nullable field' error, retry started with retry_count = 0
\* re-sends a repaired payload exactly max_retries times, then returns
\* (response, False) without raising.
C7_RetryStopsAtCeiling ==
    (/\ RtCalled
     /\ rt_count = 0
     /\ FirstMessage(rt_response) = NonNullMessage
     /\ \A i \in DOMAIN rt_server : Contains(rt_server[i], "errors")
     /\ AlwaysNonNullError(rt_server))
    => /\ Len(rt_result.sent) = max_retries
       /\ rt_result.success = FALSE
       /\ rt_result.exc = ""

\* the engine has run an operation
EngCalled == eng_last.op # ""

\* C8: when the first error's message is no non-nullable-field-null
\* violation, retry sends no request and returns the response it was given
\* with success = False, whatever its retry_count; and an operation the
\* server answers with such an error is reported failed by the engine, with
\* the bucket unchanged and no repaired payload sent.
C8_OtherErrorsAreNotRetried ==
    /\ (RtCalled /\ FirstMessage(rt_response) # NonNullMessage)
       => /\ rt_result.sent = <<>>
          /\ rt_result.response = rt_response
          /\ rt_result.success = FALSE
          /\ rt_result.exc = ""
    /\ (EngCalled /\ Contains(eng_last.server[1], "errors")
                  /\ FirstMessage(eng_last.server[1]) # NonNullMessage)
       => /\ eng_last.result.success = FALSE
          /\ eng_last.result.escaped = ""
          /\ eng_last.result.bucket = eng_last.given
          /\ eng_bucket = eng_last.given
          /\ Len(eng_last.result.sent) <= 1

\* retry was entered at a recursion level above the first with another
\* error and gave the response back
C8_Witness ==
    /\ RtCalled
    /\ rt_count > 0
    /\ FirstMessage(rt_response) = OtherMessage
    /\ rt_result.response = rt_response
    /\ rt_result.success = FALSE

RECURSIVE NetBraces(_, _, _)

\* braces opened minus braces closed on the 1-based lines a..b
NetBraces(lines, a, b) ==
    IF a > b THEN 0 ELSE Opens(lines[a]) - Closes(lines[a]) + NetBraces(lines, a + 1, b)

\* the 1-based line holding the closing brace of the block opened at line L
MatchingClose(lines, L) ==
    CHOOSE e \in L..Len(lines) :
        /\ NetBraces(lines, L, e) = 0
        /\ \A k \in L..(e - 1) : NetBraces(lines, L, k) > 0

\* every closing brace closes an open one, and none stays open
Balanced(lines) ==
    /\ NetBraces(lines, 1, Len(lines)) = 0
    /\ \A k \in 1..Len(lines) : NetBraces(lines, 1, k) >= 0

\* the lines of `block` occur in `lines`, one after the other
Occurs(block, lines) ==
    \E o \in 0..(Len(lines) - Len(block)) : SubSeq(lines, o + 1, o + Len(block)) = block

\* the error names one location, the first line of a selection block
SingleBlockLocation ==
    /\ FirstMessage(rt_response) = NonNullMessage
    /\ Len(rt_response.d.errors[1].locations) = 1
    /\ rt_response.d.errors[1].locations[1].line \in BlockLines(rt_payload)

\* C9: for an error with a single location at 1-based line L, the first
\* line of a selection block, the payload re-sent is the rejected payload
\* without the lines from L to the block's closing brace: every other line
\* is kept, in order, braces stay balanced, and the removed block does not
\* occur in what is sent.
C9_RepairRemovesExactlyTheBlock ==
    (RtCalled /\ SingleBlockLocation)
    => LET L == rt_response.d.errors[1].locations[1].line
           E == MatchingClose(rt_payload, L)
       IN /\ Len(rt_result.sent) >= 1
          /\ rt_result.sent[1] = SubSeq(rt_payload, 1, L - 1) \o SubSeq(rt_payload, E + 1, Len(rt_payload))
          /\ Balanced(rt_result.sent[1])
          /\ ~Occurs(SubSeq(rt_payload, L, E), rt_result.sent[1])

\* the payer block at lines 4..7 was cut out of a payload that keeps its
\* payee block
C9_Witness ==
    /\ RtCalled
    /\ SingleBlockLocation
    /\ rt_payload[4] = OpenLine("payer")
    /\ rt_response.d.errors[1].locations[1].line = 4
    /\ Len(rt_result.sent) = 1
    /\ Len(rt_result.sent[1]) = Len(rt_payload) - 4
    /\ Occurs(<<OpenLine("payee"), NameLine("id"), CloseLine>>, rt_result.sent[1])

----------------------------------------------------------------------------
(* Claims about the engine *)

\* the hard dependencies of an operation can all be met from the bucket
DependenciesLive(name, objects_bucket) ==
    \A n \in DOMAIN Operations[name].hardDependsOn :
        \/ Operations[name].hardDependsOn[n] = "UNKNOWN"
        \/ Live(objects_bucket, Operations[name].hardDependsOn[n])

\* the value the server's first answer gives for the operation is an object
\* with the key id
AnsweredWithId ==
    /\ Contains(eng_last.server[1], "data")
    /\ eng_last.server[1].d.data[eng_last.op].py = "dict"
    /\ "id" \in DOMAIN eng_last.server[1].d.data[eng_last.op].d

AnsweredId == eng_last.server[1].d.data[eng_last.op].d.id

\* every identifier of bucket a is an identifier of bucket b, under the same type
BucketWithin(a, b) ==
    \A T \in DOMAIN a : T \in DOMAIN b /\ Range(a[T]) \subseteq Range(b[T])

\* C2: a DELETE mutation the server answers with an object carrying an id
\* removes from the bucket, under the mutation's output type, exactly the
\* identifier the materializer consumed for that type, and no other
\* identifier of any type.
C2_DeleteRemovesConsumedId ==
    (/\ EngCalled
     /\ Operations[eng_last.op].mutationType = "DELETE"
     /\ DependenciesLive(eng_last.op, eng_last.given)
     /\ AnsweredWithId)
    => LET T == get_output_type(eng_last.op) IN
       \E v \in Range(eng_last.given[T]) :
           eng_last.result.bucket = remove_from_object_bucket(eng_last.given, T, v)

\* C3: a CREATE mutation or a query the server answers with an object
\* carrying a non-null id returns a bucket that holds this id under the
\* operation's output type and still holds every identifier it held.
C3_CreateAndQueryInsertId ==
    (/\ EngCalled
     /\ (Operations[eng_last.op].mutationType = "CREATE" \/ Operations[eng_last.op].kind = "query")
     /\ DependenciesLive(eng_last.op, eng_last.given)
     /\ Operations[eng_last.op].softDependsOn = EmptyDict
     /\ AnsweredWithId
     /\ AnsweredId # NullId)
    => /\ Live(eng_last.result.bucket, get_output_type(eng_last.op))
       /\ AnsweredId \in Range(eng_last.result.bucket[get_output_type(eng_last.op)])
       /\ BucketWithin(eng_last.given, eng_last.result.bucket)

\* C4: a call of run_regular_mutation or run_regular_query that reports
\* failure returns the bucket it was given, and the caller goes on with it.
C4_FailureLeavesBucket ==
    (EngCalled /\ eng_last.result.escaped = "" /\ ~eng_last.result.success)
    => /\ eng_last.result.bucket = eng_last.given
       /\ eng_bucket = eng_last.given

\* an operation failed on a bucket that holds identifiers
C4_Witness ==
    /\ EngCalled
    /\ ~eng_last.result.success
    /\ Live(eng_last.given, "User")
    /\ Live(eng_last.given, "Post")
    /\ eng_bucket = eng_last.given

----------------------------------------------------------------------------
(* More claims about the output side *)

OutRun == out_result # NotRun

OpenBrace == <<"punct", "{">>

CloseBrace == <<"punct", "}">>

Comma == <<"punct", ",">>

RECURSIVE TokenNet(_, _, _)

\* braces opened minus braces closed among the tokens a..b
TokenNet(str, a, b) ==
    IF a > b THEN 0
    ELSE (IF str[a] = OpenBrace THEN 1 ELSE IF str[a] = CloseBrace THEN -1 ELSE 0)
         + TokenNet(str, a + 1, b)

\* the position of the brace that closes the one at position i
ClosingBrace(str, i) ==
    CHOOSE e \in i..Len(str) :
        /\ TokenNet(str, i, e) = 0
        /\ \A k \in i..(e - 1) : TokenNet(str, i, k) > 0

\* position i selects a scalar leaf: a field name followed by its comma
ScalarLeafAt(str, i) ==
    /\ i < Len(str)
    /\ str[i][1] = "name"
    /\ str[i + 1] = Comma

----------------------------------------------------------------------------
(* More claims about the input side *)

InRun == in_result # NotRun

\* the input objects that contain themselves, directly or through wrappers
SelfReferential == {"UserFilter", "PostFilter"}

\* the operations that take a self-referential input object
SelfReferentialOps ==
    {op \in OpNames : \E i \in DOMAIN Operations[op].inputs :
        get_base_oftype(Operations[op].inputs[i][2]).type \in SelfReferential}

\* C12: input materialization of an operation that takes a self-referential
\* input object terminates: it does not recurse until the interpreter's
\* recursion limit ends it, and what it builds nests input objects at most
\* MAX_INPUT_DEPTH deep.
C12_InputRecursionIsBounded ==
    (InRun /\ in_op \in SelfReferentialOps)
    => /\ in_result.exc # "RecursionError"
       /\ \A k \in DOMAIN in_result.str : TokenNet(in_result.str, 1, k) <= MAX_INPUT_DEPTH

\* C13: the selection sets of a materialized output nest at most
\* MAX_OUTPUT_SELECTOR_DEPTH deep, also along a chain of pairwise distinct
\* object types, where no type repeats and the cycle counter cuts nothing.
C13_OutputDepthCeiling ==
    (OutRun /\ out_result.exc = "")
    => \A k \in DOMAIN out_result.str :
           TokenNet(out_result.str, 1, k) <= MAX_OUTPUT_SELECTOR_DEPTH

----------------------------------------------------------------------------
(* Claims about the dependency resolver *)

\* the named type an entry of a dependency list stands for
EntryType(e) == IF e.py = "str" THEN e.s ELSE get_base_oftype(e.d).type

\* C14: once resolve() has returned, every object's fields contribute at
\* most one entry each to hardDependsOn and softDependsOn together, and no
\* entry of either list stands for one of the built-in scalars ID, Int,
\* Float, String, Boolean, also for fields like id: ID! and tags: [String].
C14_BuiltInsAreNoDependencies ==
    res_done
    => \A T \in DOMAIN res_objects :
        LET o == res_objects[T] IN
        /\ Len(o.hardDependsOn) + Len(o.softDependsOn) <= Len(o.fields)
        /\ \A i \in DOMAIN o.hardDependsOn : EntryType(o.hardDependsOn[i]) \notin BUILT_IN_TYPES
        /\ \A i \in DOMAIN o.softDependsOn : EntryType(o.softDependsOn[i]) \notin BUILT_IN_TYPES

----------------------------------------------------------------------------
(* Claims about the interpretation of responses *)

IntCalled == int_last.op # ""

\* the id of the object the server's first answer gives for the operation
AnsweredIdOf(call) ==
    IF /\ Contains(call.server[1], "data")
       /\ call.server[1].d.data[call.op].py = "dict"
       /\ "id" \in DOMAIN call.server[1].d.data[call.op].d
    THEN call.server[1].d.data[call.op].d.id
    ELSE NullId

\* the server's first answer has a data section with null for the operation
NullAnswer(call) ==
    /\ Contains(call.server[1], "data")
    /\ call.server[1].d.data[call.op].py = "None"

\* C15: when the response has a data section in which the operation's value
\* is null, the outcome is NO_DATA_COUNT_AS_SUCCESS and the bucket is the
\* one given, for mutations of every kind and for queries, both where the
\* response is interpreted and for the engine call as a whole.
C15_NullDataFollowsTheFlag ==
    /\ (IntCalled /\ NullAnswer(int_last))
       => /\ int_last.result.success = NO_DATA_COUNT_AS_SUCCESS
          /\ int_last.result.escaped = ""
          /\ int_last.result.bucket = int_last.given
          /\ int_bucket = int_last.given
    /\ (EngCalled /\ NullAnswer(eng_last))
       => /\ eng_last.result.success = NO_DATA_COUNT_AS_SUCCESS
          /\ eng_last.result.bucket = eng_last.given
          /\ eng_bucket = eng_last.given

\* a DELETE mutation that consumed an identifier got null for an answer and
\* the identifier is still in the bucket
C15_Witness ==
    /\ IntCalled
    /\ NullAnswer(int_last)
    /\ Operations[int_last.op].mutationType = "DELETE"
    /\ "User" \in DOMAIN int_last.used
    /\ int_last.result.caught = ""
    /\ int_last.result.sent = <<PayloadOf(int_last.op)>>
    /\ int_bucket = int_last.given

C16_WitnessUnknown ==
    /\ IntCalled
    /\ Operations[int_last.op].mutationType = "UNKNOWN"
    /\ int_last.result.success
    /\ "User" \notin DOMAIN int_last.given
    /\ AnsweredIdOf(int_last) = IdName[1]

----------------------------------------------------------------------------
(* Claims about the orchestrator *)

OrchCalled == orch_result # OrchNotCalled

\* C17: orchestrate explores the graph and returns, and the graph then has
\* exactly the nodes and edges it had at the start: what the search removed
\* along a branch was put back.
C17_GraphRestored ==
    [][orch_result' # orch_result
       => /\ orch_result'.exc = ""
          /\ orch_graph' = orch_graph
          /\ (Leaves(orch_graph) # {} => orch_result'.handed # <<>>)]_vars

\* C18: orchestrate terminates on every finite dependency graph, and every
\* sequence it hands to execution has at most maxLen operations.
C18_SearchTerminatesWithinMaxLen ==
    OrchCalled
    => /\ orch_result.exc = ""
       /\ \A i \in DOMAIN orch_result.handed : Len(orch_result.handed[i]) <= orch_maxLen

\* position of operation o in a sequence, 0 when absent
PositionOf(seq, o) == IF \E i \in DOMAIN seq : seq[i] = o
                      THEN CHOOSE i \in DOMAIN seq : seq[i] = o ELSE 0

\* C19: an operation that needs an object another operation of the graph
\* produces is not given up when it fails for its unmet hard dependency:
\* the run attempts it again after the producing operation, so some
\* sequence handed to execution holds the producer before it.
C19_UnmetDependencyIsDeferred ==
    (/\ OrchCalled
     /\ orch_maxLen >= 2
     /\ <<"updateUser", "createUser">> \in orch_graph.edges)
    => \E i \in DOMAIN orch_result.handed :
          LET seq == orch_result.handed[i] IN
          /\ PositionOf(seq, "createUser") > 0
          /\ PositionOf(seq, "updateUser") > PositionOf(seq, "createUser")

----------------------------------------------------------------------------
(* Claims about who writes the bucket *)

----------------------------------------------------------------------------
(* Claims about the revisit counter *)

\* C21: the revisit counter counts the ancestors of the field being
\* expanded only: of sibling fields of one object type B under A, each has
\* the ancestors A alone, so every one of them is selected, the third
\* included.
C21_CounterFollowsThePath ==
    (/\ OutRun
     /\ out_result.exc = ""
     /\ out_objects \in SiblingSchemas
     /\ get_base_oftype(out_output).type = "A")
    => \A k \in DOMAIN SiblingName :
         (\E i \in DOMAIN out_objects["A"].fields : out_objects["A"].fields[i].name = SiblingName[k])
         => <<"name", SiblingName[k]>> \in Range(out_result.str)

----------------------------------------------------------------------------
(* Claims about the recovery by retry *)

\* the server answers the payload with a non-null error and the repaired
\* payload with an object carrying an id, without errors
RecoversOnRetry(call) ==
    /\ Len(call.server) = 2
    /\ Contains(call.server[1], "errors")
    /\ is_non_null_message(call.server[1].d.errors[1].message)
    /\ ~Contains(call.server[2], "errors")
    /\ Contains(call.server[2], "data")
    /\ call.server[2].d.data[call.op].py = "dict"
    /\ "id" \in DOMAIN call.server[2].d.data[call.op].d
    /\ call.server[2].d.data[call.op].d.id \in Ids

\* C22: when the first response carries a non-null error and the response
\* to the repaired payload carries none, the new response is interpreted by
\* the remaining steps: a CREATE mutation recovered by the retry is
\* successful and the id of the new response is in the bucket under the
\* output type.
C22_RetryRecoversCreate ==
    (/\ IntCalled
     /\ RecoversOnRetry(int_last)
     /\ Operations[int_last.op].mutationType = "CREATE")
    => /\ int_last.result.success
       /\ int_last.server[2].d.data[int_last.op].d.id
            \in Range(int_bucket[get_output_type(int_last.op)])

----------------------------------------------------------------------------
(* Claims about the used objects *)

\* every entry of the used objects is an identifier the bucket holds under
\* the entry's type, and the tokens render it as a quoted literal
UsedFromBucket(used, objects_bucket, tokens) ==
    \A T \in DOMAIN used :
        /\ T \in DOMAIN objects_bucket
        /\ used[T] \in Range(objects_bucket[T])
        /\ <<"quoted", used[T]>> \in Range(tokens)

\* the tokens of all lines of a payload
RECURSIVE TokensOf(_)
TokensOf(lines) == IF lines = <<>> THEN <<>> ELSE Head(lines) \o TokensOf(Tail(lines))

\* C23: whenever the inputs of an operation are materialized, and whenever
\* get_payload returns a payload, every entry (T -> v) of the used objects
\* has v among the bucket's identifiers of T and v is rendered as a quoted
\* literal; nothing recorded before the call is among the entries.
C23_UsedObjectsComeFromBucket ==
    /\ (InRun /\ in_result.exc = "")
       => UsedFromBucket(in_result.used, in_bucket, in_result.str)
    /\ (InRun /\ in_op \in QueryNames)
       => LET p == query_payload_from(in_op, in_result) IN
            p.exc = "" => UsedFromBucket(p.used, in_bucket, TokensOf(p.payload))
    /\ (InRun /\ in_op \in MutationNames)
       => \A p \in mutation_get_payload(in_op, in_bucket) :
            p.exc = "" => UsedFromBucket(p.used, in_bucket, TokensOf(p.payload))

\* a query with a hard dependency was materialized on a bucket holding two
\* identifiers of the type, and one of them was recorded
C23_Witness ==
    /\ InRun
    /\ in_op \in QueryNames
    /\ in_result.exc = ""
    /\ Len(in_bucket["User"]) = 2
    /\ "User" \in DOMAIN in_result.used
    /\ in_result.used["User"] = in_bucket["User"][2]
    /\ query_payload_from(in_op, in_result).exc = ""
    /\ query_payload_from(in_op, in_result).used = in_result.used

----------------------------------------------------------------------------
(* Claims about errors with several locations *)

\* the error names two locations, each the first line of a selection block
TwoBlockLocations ==
    /\ FirstMessage(rt_response) = NonNullMessage
    /\ Len(rt_response.d.errors[1].locations) = 2
    /\ \A n \in 1..2 : rt_response.d.errors[1].locations[n].line \in BlockLines(rt_payload)

\* the lines of the payload outside the blocks that start at the given lines
WithoutBlocks(lines, starts) ==
    LET kept == {i \in 1..Len(lines) :
                    \A L \in starts : ~(L <= i /\ i <= MatchingClose(lines, L))}
    IN [j \in 1..Cardinality(kept) |->
            lines[CHOOSE i \in kept : Cardinality({x \in kept : x <= i}) = j]]

\* C24: for an error with several locations, the payload re-sent is the
\* rejected payload without, for each location, the block that starts at
\* the reported line of the payload as it was sent, whatever the order of
\* the locations and whatever lines the earlier locations removed.
C24_EachLocationRemovesItsBlock ==
    (RtCalled /\ TwoBlockLocations)
    => /\ Len(rt_result.sent) >= 1
       /\ rt_result.sent[1]
            = WithoutBlocks(rt_payload, {rt_response.d.errors[1].locations[n].line : n \in 1..2})

----------------------------------------------------------------------------
(* Claims about unresolved dependencies *)

\* the operation without the hard dependencies recorded as UNKNOWN
WithoutUnknown(operator_info) ==
    LET known == {n \in DOMAIN operator_info.hardDependsOn : operator_info.hardDependsOn[n] # "UNKNOWN"}
    IN [operator_info EXCEPT !.hardDependsOn = [n \in known |-> operator_info.hardDependsOn[n]]]

\* the operations with an input whose hard dependency is UNKNOWN
UnknownOps == {n \in OpNames : WithoutUnknown(Operations[n]) # Operations[n]}

\* C25: an input whose hard dependency is UNKNOWN never raises
\* HardDependencyNotMetException, whatever the bucket holds, and the inputs
\* are materialized exactly as those of the operation without the UNKNOWN
\* entries: by the kind of the field.
C25_UnknownDependencyGoesByKind ==
    (InRun /\ in_op \in UnknownOps)
    => /\ in_result.exc # "HardDependencyNotMetException"
       /\ in_result \in materialize_inputs(WithoutUnknown(Operations[in_op]), Operations[in_op].inputs,
                                           in_bucket, EmptyDict, 1)

\* the inputs with UNKNOWN dependencies, non-null scalar, list and input
\* object, were materialized on a bucket holding identifiers
C25_Witness ==
    /\ InRun
    /\ in_op \in UnknownOps
    /\ in_result.exc = ""
    /\ "User" \in DOMAIN in_bucket /\ in_bucket["User"] # <<>>
    /\ <<"literal", "ID">> \in Range(in_result.str)
    /\ <<"punct", "[">> \in Range(in_result.str)
    /\ <<"punct", "{">> \in Range(in_result.str)
    /\ in_result.used = EmptyDict

----------------------------------------------------------------------------
(* Claims about the two dependency lists *)

\* the field is of an object type, behind its wrappers
OfObjectType(field) == get_base_oftype(field).kind = "OBJECT"

RECURSIVE ListWrapped(_)

\* one of the field's wrappers is a list
ListWrapped(field) ==
    \/ field.kind = "LIST"
    \/ field.kind = "NON_NULL" /\ ListWrapped(field.ofType)

\* the names of the object types the fields reach through a non-nullable
\* field that is no list
HardTargets(fields) ==
    {get_base_oftype(fields[i]).type :
        i \in {j \in DOMAIN fields : /\ OfObjectType(fields[j])
                                     /\ fields[j].kind = "NON_NULL"
                                     /\ ~ListWrapped(fields[j])}}

\* the names of the object types the fields reach through a nullable or a
\* list-wrapped field
SoftTargets(fields) ==
    {get_base_oftype(fields[i]).type :
        i \in {j \in DOMAIN fields : /\ OfObjectType(fields[j])
                                     /\ (fields[j].kind # "NON_NULL" \/ ListWrapped(fields[j]))}}

\* the strings among the entries of a dependency list
NamesIn(list) == {list[i].s : i \in {j \in DOMAIN list : list[j].py = "str"}}

\* C26: once resolve() has returned, every entry of hardDependsOn is the
\* name of an object type reached through a non-nullable field that is no
\* list, every entry of softDependsOn is the name of an object type reached
\* through a nullable or list-wrapped field, a non-null list field yields a
\* soft dependency on its element type, and fields of custom scalar or enum
\* types yield no entry.
C26_ListsHoldObjectTypeNames ==
    res_done
    => \A T \in DOMAIN res_objects :
        LET o == res_objects[T] IN
        /\ \A i \in DOMAIN o.hardDependsOn : o.hardDependsOn[i].py = "str"
        /\ \A i \in DOMAIN o.softDependsOn : o.softDependsOn[i].py = "str"
        /\ NamesIn(o.hardDependsOn) = HardTargets(o.fields)
        /\ NamesIn(o.softDependsOn) = SoftTargets(o.fields)

----------------------------------------------------------------------------
(* Claims about the origin of the identifiers *)

\* C27: in every state a sequence of run_regular_mutation and
\* run_regular_query calls reaches from an empty bucket, every identifier
\* the bucket holds under a type T was returned as the non-null id of a
\* successful CREATE mutation or query whose output type is T: none comes
\* from a failed operation, from an UPDATE, DELETE or UNKNOWN mutation, or
\* from the materializer.
C27_IdentifiersWereReturned ==
    entry = "sequence"
    => \A T \in DOMAIN seq_bucket : \A v \in Range(seq_bucket[T]) : <<T, v>> \in seq_returned

\* two identifiers of User and one of Post were returned, one of User was
\* deleted again, and the last call, from step 2 on, succeeded
C27_Witness ==
    /\ entry = "sequence"
    /\ seq_last = [whole |-> FALSE, success |-> TRUE]
    /\ {<<"User", IdName[1]>>, <<"User", IdName[2]>>} \subseteq seq_returned
    /\ Live(seq_bucket, "Post")
    /\ "User" \in DOMAIN seq_bucket
    /\ seq_bucket["User"] = <<IdName[2]>>

----------------------------------------------------------------------------
(* Claims about the identifiers a DELETE consumed *)

====
